---- MODULE Spec2Model ----
(***************************************************************************)
(* PopART: the local submission store (one AsyncStorage key holding a JSON *)
(* array of submitted collections) and the screens that read and write it: *)
(* Marketplace (app/index.tsx), Contributor dashboard                      *)
(* (app/contributor-dashboard.tsx), My Collections (app/my-collections.tsx)*)
(* and the collection details screen (app/collection/[id].tsx, kept in     *)
(* src/unnamed/part_000, with an identical load in                         *)
(* app/edit-collection/[id].tsx).                                          *)
(*                                                                         *)
(* JavaScript values are modelled as follows.                              *)
(*  - A string that the code trims (the title and description inputs) is a *)
(*    sequence of one-character strings; every other string is a string.   *)
(*  - The `images` member of a stored object is [kind, items]: kind        *)
(*    "array" (items is the array), "absent" (the object has no such key), *)
(*    or "other" (a value that is not an array, e.g. null).                *)
(*  - The text held under the storage key is [kind, items]: "null" (the    *)
(*    key is absent, getItem resolves null), "empty" (the empty string),   *)
(*    "garbage" (text JSON.parse rejects), "nonarray" (JSON text of a      *)
(*    value that is not an array) or "array" (JSON text of an array of     *)
(*    objects, items being the objects in order).                          *)
(*  - Each AsyncStorage call is a request in flight until it resolves, and *)
(*    requests resolve in any order. getItem reads the text, and setItem   *)
(*    stores it, at the moment the call resolves; the code after the await *)
(*    runs in the same step.                                               *)
(***************************************************************************)
EXTENDS Integers, Sequences, FiniteSets, TLC

VARIABLES
    storage,               \* text under STORAGE_KEY
    clock,                 \* device clock (Date.now())
    focused,               \* route that has focus
    alert,                 \* title of the last Alert.alert raised ("" = none)
    loads,                 \* per screen: getItem requests in flight, in issue order
    writes,                \* setItem requests in flight
    \* contributor-dashboard.tsx
    title, description, rarity, imageUri, extraImages, isSubmitting,
    submittedCollections, formMounted,
    \* my-collections.tsx
    collections, myIsLoading,
    pendingDelete,         \* handleDelete's closure while its prompt is on display
    \* index.tsx
    selectedFilter, userCollections,
    \* collection/[id].tsx
    routeId, isLoading, collection,
    \* edit-collection/[id].tsx
    editRouteId, editIsLoading, editCollection,
    \* both routes, per route: the swipe-back gesture
    translateX,            \* translateX.value, in hundredths of the screen width
    animation,             \* the animation assigned to translateX.value, if any
    backs,                 \* calls of router.back() so far
    \* collection/[id].tsx: the full-screen viewer
    viewerOpen, viewerIndex

formVars   == <<title, description, rarity, imageUri, extraImages, isSubmitting,
                submittedCollections, formMounted>>
myVars     == <<collections, myIsLoading, pendingDelete>>
homeVars   == <<selectedFilter, userCollections>>
detailVars == <<routeId, isLoading, collection>>
editVars   == <<editRouteId, editIsLoading, editCollection>>
viewVars   == <<translateX, animation, backs, viewerOpen, viewerIndex>>
vars == <<storage, clock, focused, alert, loads, writes,
          formVars, myVars, homeVars, detailVars, editVars, viewVars>>

(***************************************************************************)
(* Bounds of the model.                                                    *)
(***************************************************************************)
\* getItem requests a screen may still have in flight when it gains focus again
HomeBacklog == 0
DetailBacklog == 1
MyBacklog == 0
FormBacklog == 0
\* records the form's list may hold when a submit is accepted
MaxRecords == 1
\* card images the user adds to the form
MaxCards == 2
\* delete writes in flight when the user asks for one more delete
MaxDeletes == 0
\* milliseconds the device clock advances
MaxTicks == 1
\* swipes that end past the threshold
MaxBacks == 1

(***************************************************************************)
(* Program constants.                                                      *)
(***************************************************************************)
rarityOptions == <<"Common", "Uncommon", "Rare", "Epic", "Legendary">>

rarityFilters == <<"All", "Common", "Uncommon", "Rare", "Epic", "Legendary">>

\* index.tsx keeps its own copy of the seed data ...
seedCollections ==
    << [id |-> "1", title |-> "Neon City Dreams", creator |-> "ArtByNova",
        rarity |-> "Epic", items |-> 12,
        theme |-> "Cyberpunk cityscapes and neon characters.", imageUrl |-> "pexels-3404200"],
       [id |-> "2", title |-> "Forest Spirits", creator |-> "WillowSketch",
        rarity |-> "Rare", items |-> 18,
        theme |-> "Magical creatures hidden in ancient woods.", imageUrl |-> "pexels-15286"],
       [id |-> "3", title |-> "Pixel Pals", creator |-> "RetroRaccoon",
        rarity |-> "Common", items |-> 24,
        theme |-> "Cute pixel pets and tiny worlds.", imageUrl |-> "pexels-1293261"],
       [id |-> "4", title |-> "Cosmic Cards", creator |-> "StellarInk",
        rarity |-> "Legendary", items |-> 8,
        theme |-> "Galaxy-inspired characters and tarot-style cards.", imageUrl |-> "pexels-2150"] >>

\* ... and so does collection/[id].tsx.
detailSeedCollections ==
    << [id |-> "1", title |-> "Neon City Dreams", creator |-> "ArtByNova",
        rarity |-> "Epic", theme |-> "Cyberpunk cityscapes and neon characters.",
        imageUrl |-> "pexels-3404200", items |-> 12],
       [id |-> "2", title |-> "Forest Spirits", creator |-> "WillowSketch",
        rarity |-> "Rare", theme |-> "Magical creatures hidden in ancient woods.",
        imageUrl |-> "pexels-15286", items |-> 18],
       [id |-> "3", title |-> "Pixel Pals", creator |-> "RetroRaccoon",
        rarity |-> "Common", theme |-> "Cute pixel pets and tiny worlds.",
        imageUrl |-> "pexels-1293261", items |-> 24],
       [id |-> "4", title |-> "Cosmic Cards", creator |-> "StellarInk",
        rarity |-> "Legendary", theme |-> "Galaxy-inspired characters and tarot-style cards.",
        imageUrl |-> "pexels-2150", items |-> 8] >>

(***************************************************************************)
(* Sequence helpers (Array.prototype.map / filter / find).                 *)
(***************************************************************************)
Range(s) == {s[i] : i \in DOMAIN s}

\* s without its i-th element
RemoveAt(s, i) == SubSeq(s, 1, i - 1) \o SubSeq(s, i + 1, Len(s))

\* a find that returns the last match instead of the first
FindLastIndexById(s, id) ==
    IF \E i \in DOMAIN s : s[i].id = id
    THEN CHOOSE i \in DOMAIN s : s[i].id = id /\ \A j \in (i + 1)..Len(s) : s[j].id # id
    ELSE 0

\* Array.prototype.find by id: index of the first element with that id, 0 when none
FindIndexById(s, id) ==
    IF \E i \in DOMAIN s : s[i].id = id
    THEN CHOOSE i \in DOMAIN s : s[i].id = id /\ \A j \in 1..(i - 1) : s[j].id # id
    ELSE 0

(***************************************************************************)
(* The storage text and JSON.                                              *)
(***************************************************************************)
NullRaw == [kind |-> "null", items |-> <<>>]

Images(items) == [kind |-> "array", items |-> items]
NoImages      == [kind |-> "absent", items |-> <<>>]
BadImages     == [kind |-> "other", items |-> <<>>]

\* `!raw`: null and the empty string are falsy
Falsy(raw) == raw.kind \in {"null", "empty"}

\* JSON.parse: throws on text that is not JSON, else the value
JSONparse(raw) ==
    [threw   |-> raw.kind \in {"empty", "garbage"},
     isArray |-> raw.kind = "array",
     items   |-> IF raw.kind = "array" THEN raw.items ELSE <<>>]

\* JSON.stringify of an array of records: every member the object has is written,
\* a member the object lacks stays absent
JSONstringify(list) == [kind |-> "array", items |-> list]

\* a write that keeps the stored records the new text does not name
setItemMerging(old, text) ==
    IF old.kind # "array" THEN text
    ELSE [kind |-> "array",
          items |-> text.items \o
                    SelectSeq(old.items,
                              LAMBDA c : \A k \in DOMAIN text.items : text.items[k].id # c.id)]

\* AsyncStorage.setItem(STORAGE_KEY, text): the value under the key once it resolves
setItem(old, text) == text

\* a normalisation that leaves the record as stored
NormaliseImagesNot(c) == c

\* Array.isArray(c.images) ? c.images : []
NormaliseImages(c) ==
    [c EXCEPT !.images = IF c.images.kind = "array" THEN c.images ELSE Images(<<>>)]

(***************************************************************************)
(* Texts the storage key may hold when the app starts: nothing, text that  *)
(* is not a JSON array, and arrays written by this or an earlier release   *)
(* (records without `images`, records sharing an id, an id equal to a seed *)
(* id).                                                                    *)
(***************************************************************************)
UserRecord(id, t, r, cover, images, at) ==
    [id |-> id, title |-> t, description |-> "about " \o t, rarity |-> r,
     imageUri |-> cover, images |-> images, status |-> "pending", createdAt |-> at]

RecA    == UserRecord("9", "Mine", "Rare", "cover9", Images(<<"card9a", "card9b">>), "t9")
RecA2   == UserRecord("9", "Mine again", "Epic", "cover9x", Images(<<>>), "t9")
RecOld  == UserRecord("8", "Old", "Epic", "cover8", NoImages, "t8")
RecBad  == UserRecord("7", "Odd", "Common", "cover7", BadImages, "t7")
RecSeed == UserRecord("1", "Shadow", "Rare", "cover1", Images(<<>>), "t1")

InitArrays ==
    { <<>>, <<RecA>>, <<RecOld, RecA>>, <<RecA, RecA2>>, <<RecSeed, RecOld>>, <<RecBad, RecA>> }

InitBlobs ==
    { NullRaw, [kind |-> "empty", items |-> <<>>], [kind |-> "garbage", items |-> <<>>],
      [kind |-> "nonarray", items |-> <<>>] }
    \cup { JSONstringify(a) : a \in InitArrays }

\* ids a route may carry: the seed ids, the stored ids, and one that nothing has
RouteIds == {"1", "2", "4", "7", "8", "9", "404"}

Screens == {"index", "contributor", "my", "detail", "edit"}

\* the two routes that wrap their content in the swipe-back GestureDetector
Routes == {"detail", "edit"}

NoCollection == [type |-> "null"]

\* no delete prompt on display
NoDelete == [id |-> "", list |-> <<>>]

Unmounted == "unmounted"

\* a getItem request in flight; id is the route id its caller closed over ("" = none)
NewLoad(id) == [id |-> id]

InitWith(blobs) ==
    /\ storage \in blobs
    /\ clock = 0
    /\ focused = "account"
    /\ alert = ""
    /\ loads = [s \in Screens |-> <<>>]
    /\ writes = <<>>
    /\ title = <<>> /\ description = <<>> /\ rarity = "" /\ imageUri = ""
    /\ extraImages = <<>> /\ isSubmitting = FALSE
    /\ submittedCollections = <<>> /\ formMounted = FALSE
    /\ collections = <<>> /\ myIsLoading = TRUE /\ pendingDelete = NoDelete
    /\ selectedFilter = "All" /\ userCollections = <<>>
    /\ routeId = Unmounted /\ isLoading = TRUE /\ collection = NoCollection
    /\ editRouteId = Unmounted /\ editIsLoading = TRUE /\ editCollection = NoCollection
    /\ translateX = [r \in Routes |-> 0] /\ animation = [r \in Routes |-> "none"]
    /\ backs = 0
    /\ viewerOpen = FALSE /\ viewerIndex = 0

Init == InitWith(InitBlobs)

\* what collection/[id].tsx renders
DetailView ==
    IF isLoading THEN "loading"
    ELSE IF collection = NoCollection THEN "not found"
    ELSE "details"

\* the full-screen viewer is a Modal in the details view: <Modal visible={viewerOpen}>
ViewerVisible == focused = "detail" /\ DetailView = "details" /\ viewerOpen

\* Alert.alert shows a modal dialog, and so does the viewer: the screen below takes no
\* touch until it is dismissed
NoDialog == alert = "" /\ pendingDelete = NoDelete /\ ~ViewerVisible

Interactive(screen) == focused = screen /\ NoDialog

\* the user dismisses the dialog
DismissAlert ==
    /\ alert # ""
    /\ alert' = ""
    /\ UNCHANGED <<storage, clock, focused, loads, writes,
                   formVars, myVars, homeVars, detailVars, editVars, viewVars>>

FocusAccount ==
    /\ focused # "account" /\ NoDialog
    /\ focused' = "account"
    /\ UNCHANGED <<storage, clock, alert, loads, writes,
                   formVars, myVars, homeVars, detailVars, editVars, viewVars>>

(***************************************************************************)
(* Marketplace list, app/index.tsx                                         *)
(***************************************************************************)
\* parsed.map((c) => ({ id: c.id, title: c.title, creator: "You", ... }))
MapToCollection(c) ==
    [id |-> c.id, title |-> c.title, creator |-> "You", rarity |-> c.rarity,
     items |-> 1, theme |-> c.description, imageUrl |-> c.imageUri]

\* what loadUserCollections passes to setUserCollections
HomeLoadResult(raw) ==
    IF Falsy(raw) THEN <<>>
    ELSE LET parsed == JSONparse(raw) IN
         IF parsed.threw THEN <<>>
         ELSE IF parsed.isArray
              THEN [i \in DOMAIN parsed.items |-> MapToCollection(parsed.items[i])]
              ELSE <<>>

\* useFocusEffect(() => { loadUserCollections(); })
FocusIndex ==
    /\ focused # "index" /\ NoDialog
    /\ Len(loads["index"]) <= HomeBacklog
    /\ focused' = "index"
    /\ loads' = [loads EXCEPT !["index"] = Append(@, NewLoad(""))]
    /\ UNCHANGED <<storage, clock, alert, writes, formVars, myVars, homeVars, detailVars,
                   editVars, viewVars>>

\* the continuation of loadUserCollections after `await AsyncStorage.getItem`
HomeResolve(i) ==
    /\ i \in DOMAIN loads["index"]
    /\ userCollections' = HomeLoadResult(storage)
    /\ loads' = [loads EXCEPT !["index"] = RemoveAt(@, i)]
    /\ UNCHANGED <<storage, clock, focused, alert, writes, formVars, myVars,
                   selectedFilter, detailVars, editVars, viewVars>>

\* onPress={() => setSelectedFilter(filter)}
SetSelectedFilter(f) ==
    /\ Interactive("index")
    /\ f # selectedFilter
    /\ selectedFilter' = f
    /\ UNCHANGED <<storage, clock, focused, alert, loads, writes, formVars, myVars,
                   userCollections, detailVars, editVars, viewVars>>

\* the merge with the seed items first
allCollectionsSeedFirst == seedCollections \o userCollections

\* const allCollections = [...userCollections, ...seedCollections]
allCollections == userCollections \o seedCollections

\* a filter that stops at the first match (find in place of filter)
FilterFirstByRarity(list, f) ==
    IF \E i \in DOMAIN list : list[i].rarity = f
    THEN <<list[CHOOSE i \in DOMAIN list :
                   list[i].rarity = f /\ \A j \in 1..(i - 1) : list[j].rarity # f]>>
    ELSE <<>>

RECURSIVE FilterByRarity(_, _)
\* list.filter((c) => c.rarity === f)
FilterByRarity(list, f) ==
    IF list = <<>> THEN <<>>
    ELSE IF Head(list).rarity = f
         THEN <<Head(list)>> \o FilterByRarity(Tail(list), f)
         ELSE FilterByRarity(Tail(list), f)

\* a list that shows the seed items only once some filter is chosen
filteredCollectionsUserFirst ==
    IF selectedFilter = "All" THEN userCollections
    ELSE FilterByRarity(allCollections, selectedFilter)

\* the data of the FlatList
filteredCollections ==
    IF selectedFilter = "All" THEN allCollections
    ELSE FilterByRarity(allCollections, selectedFilter)

(***************************************************************************)
(* Collection details, app/collection/[id].tsx                             *)
(***************************************************************************)
\* what load() passes to setCollection for route id `id` and storage text `raw`
DetailLoadResult(raw, id) ==
    LET parsed == JSONparse(raw) IN
    IF ~Falsy(raw) /\ (parsed.threw \/ ~parsed.isArray)
    THEN NoCollection     \* JSON.parse or parsed.map threw: the catch block
    ELSE LET normalised == IF Falsy(raw) THEN <<>>
                           ELSE [i \in DOMAIN parsed.items |-> NormaliseImages(parsed.items[i])]
             u == FindIndexById(normalised, id)
             s == FindIndexById(detailSeedCollections, id)
         IN IF u # 0 THEN normalised[u] @@ [type |-> "user"]
            ELSE IF s # 0 THEN detailSeedCollections[s] @@ [type |-> "seed"]
            ELSE NoCollection

\* the route /collection/<id> gains focus: useFocusEffect sets translateX.value = 0,
\* which replaces an animation still running; useEffect(..., [id]) runs load() when the
\* screen mounts or its id changes
OpenDetail(id) ==
    /\ focused # "detail" /\ NoDialog
    /\ focused' = "detail"
    /\ routeId' = id
    /\ IF id # routeId
       THEN /\ Len(loads["detail"]) <= DetailBacklog
            /\ isLoading' = TRUE
            /\ loads' = [loads EXCEPT !["detail"] = Append(@, NewLoad(id))]
       ELSE UNCHANGED <<isLoading, loads>>
    /\ translateX' = [translateX EXCEPT !["detail"] = 0]
    /\ animation' = [animation EXCEPT !["detail"] = "none"]
    /\ UNCHANGED <<storage, clock, alert, writes, formVars, myVars, homeVars, collection,
                   editVars, backs, viewerOpen, viewerIndex>>

\* the continuation of load() after `await AsyncStorage.getItem`
DetailResolve(i) ==
    /\ i \in DOMAIN loads["detail"]
    /\ collection' = DetailLoadResult(storage, loads["detail"][i].id)
    /\ isLoading' = FALSE
    /\ loads' = [loads EXCEPT !["detail"] = RemoveAt(@, i)]
    /\ UNCHANGED <<storage, clock, focused, alert, writes, formVars, myVars, homeVars,
                   routeId, editVars, viewVars>>

\* getItem rejects: the catch block of load(), then finally
DetailReject(i) ==
    /\ i \in DOMAIN loads["detail"]
    /\ collection' = NoCollection
    /\ isLoading' = FALSE
    /\ loads' = [loads EXCEPT !["detail"] = RemoveAt(@, i)]
    /\ UNCHANGED <<storage, clock, focused, alert, writes, formVars, myVars, homeVars,
                   routeId, editVars, viewVars>>

\* a gallery with no fallback to the cover
GalleryImagesOfCards(c) ==
    IF c.type = "user" THEN c.images.items ELSE <<c.imageUrl>>

\* galleryImages, for a loaded collection
GalleryImages(c) ==
    IF c.type = "user"
    THEN IF c.images.kind = "array" /\ Len(c.images.items) > 0
         THEN c.images.items
         ELSE <<c.imageUri>>
    ELSE <<c.imageUrl>>

galleryImages == GalleryImages(collection)

(***************************************************************************)
(* My Collections, app/my-collections.tsx                                  *)
(***************************************************************************)
\* a load that marks every record it reads as reviewed
MyLoadResultReviewed(raw) ==
    IF Falsy(raw) THEN <<>>
    ELSE LET parsed == JSONparse(raw) IN
         IF parsed.threw THEN <<>>
         ELSE IF parsed.isArray
              THEN [i \in DOMAIN parsed.items |->
                       [NormaliseImages(parsed.items[i]) EXCEPT !.status = "approved"]]
              ELSE <<>>

\* what loadCollections passes to setCollections
MyLoadResult(raw) ==
    IF Falsy(raw) THEN <<>>
    ELSE LET parsed == JSONparse(raw) IN
         IF parsed.threw THEN <<>>
         ELSE IF parsed.isArray
              THEN [i \in DOMAIN parsed.items |-> NormaliseImages(parsed.items[i])]
              ELSE <<>>

\* useFocusEffect(() => { loadCollections(); }); setIsLoading(true) runs before the await
FocusMy ==
    /\ focused # "my" /\ NoDialog
    /\ Len(loads["my"]) <= MyBacklog
    /\ focused' = "my"
    /\ myIsLoading' = TRUE
    /\ loads' = [loads EXCEPT !["my"] = Append(@, NewLoad(""))]
    /\ UNCHANGED <<storage, clock, alert, writes, formVars, collections, pendingDelete,
                   homeVars, detailVars, editVars, viewVars>>

\* the continuation of loadCollections after `await AsyncStorage.getItem`
MyResolve(i) ==
    /\ i \in DOMAIN loads["my"]
    /\ collections' = MyLoadResult(storage)
    /\ myIsLoading' = FALSE
    /\ loads' = [loads EXCEPT !["my"] = RemoveAt(@, i)]
    /\ UNCHANGED <<storage, clock, focused, alert, writes, formVars, pendingDelete,
                   homeVars, detailVars, editVars, viewVars>>

\* getItem rejects: the catch block of loadCollections, then finally
MyReject(i) ==
    /\ i \in DOMAIN loads["my"]
    /\ collections' = <<>>
    /\ myIsLoading' = FALSE
    /\ loads' = [loads EXCEPT !["my"] = RemoveAt(@, i)]
    /\ UNCHANGED <<storage, clock, focused, alert, writes, formVars, pendingDelete,
                   homeVars, detailVars, editVars, viewVars>>

\* a removal by index: splice(findIndex(...), 1), where -1 removes the last record
DeleteBySplice(list, id) ==
    LET k == FindIndexById(list, id)
    IN IF list = <<>> THEN list
       ELSE IF k = 0 THEN SubSeq(list, 1, Len(list) - 1)
       ELSE RemoveAt(list, k)

\* collections.filter((c) => c.id !== id)
DeleteById(list, id) == SelectSeq(list, LAMBDA c : c.id # id)

\* c.images?.length ?? 0
MyCardCount(c) == IF c.images.kind = "array" THEN Len(c.images.items) ELSE 0

\* handleDelete(c.id), from the Delete button of a listed record: the prompt goes up and
\* its buttons close over this render's `collections`
HandleDelete(id) ==
    /\ Interactive("my") /\ ~myIsLoading
    /\ Len(SelectSeq(writes, LAMBDA w : w.screen = "my")) <= MaxDeletes
    /\ \E k \in DOMAIN collections : collections[k].id = id
    /\ pendingDelete' = [id |-> id, list |-> collections]
    /\ UNCHANGED <<storage, clock, focused, alert, loads, writes, formVars,
                   collections, myIsLoading, homeVars, detailVars, editVars, viewVars>>

\* a Cancel button that saves the list it was shown
CancelDeleteSaves ==
    /\ pendingDelete # NoDelete
    /\ pendingDelete' = NoDelete
    /\ writes' = Append(writes, [screen |-> "my",
                                 text |-> JSONstringify(pendingDelete.list)])
    /\ UNCHANGED <<storage, clock, focused, alert, loads, formVars,
                   collections, myIsLoading, homeVars, detailVars, editVars, viewVars>>

\* { text: "Cancel", style: "cancel" }
CancelDelete ==
    /\ pendingDelete # NoDelete
    /\ pendingDelete' = NoDelete
    /\ UNCHANGED <<storage, clock, focused, alert, loads, writes, formVars,
                   collections, myIsLoading, homeVars, detailVars, editVars, viewVars>>

\* the Delete button's onPress up to `await AsyncStorage.setItem`
ConfirmDelete ==
    /\ pendingDelete # NoDelete
    /\ LET remaining == DeleteById(pendingDelete.list, pendingDelete.id)
       IN /\ collections' = remaining
          /\ writes' = Append(writes, [screen |-> "my", text |-> JSONstringify(remaining)])
    /\ pendingDelete' = NoDelete
    /\ UNCHANGED <<storage, clock, focused, alert, loads, formVars, myIsLoading,
                   homeVars, detailVars, editVars, viewVars>>

\* setItem resolves: the text is stored; nothing follows the await
DeleteResolve(i) ==
    /\ i \in DOMAIN writes
    /\ writes[i].screen = "my"
    /\ storage' = setItem(storage, writes[i].text)
    /\ writes' = RemoveAt(writes, i)
    /\ UNCHANGED <<clock, focused, alert, loads, formVars, myVars, homeVars, detailVars,
                   editVars, viewVars>>

\* setItem rejects: nothing is stored, then the catch block
DeleteReject(i) ==
    /\ i \in DOMAIN writes
    /\ writes[i].screen = "my"
    /\ writes' = RemoveAt(writes, i)
    /\ alert' = "Error"
    /\ UNCHANGED <<storage, clock, focused, loads, formVars, myVars, homeVars, detailVars,
                   editVars, viewVars>>

(***************************************************************************)
(* The route /edit-collection/<id>, app/edit-collection/[id].tsx: the same *)
(* read-only screen as the details route; it calls no setItem.             *)
(***************************************************************************)
\* the route gains focus; useEffect(..., [id]) runs load() on mount or a new id
OpenEdit(id) ==
    /\ focused' = "edit"
    /\ editRouteId' = id
    /\ IF id # editRouteId
       THEN /\ Len(loads["edit"]) <= DetailBacklog
            /\ editIsLoading' = TRUE
            /\ loads' = [loads EXCEPT !["edit"] = Append(@, NewLoad(id))]
       ELSE UNCHANGED <<editIsLoading, loads>>
    /\ translateX' = [translateX EXCEPT !["edit"] = 0]
    /\ animation' = [animation EXCEPT !["edit"] = "none"]
    /\ UNCHANGED <<storage, clock, alert, writes, formVars, myVars, homeVars, detailVars,
                   editCollection, backs, viewerOpen, viewerIndex>>

\* handleEdit(c.id): router.push(`/edit-collection/${id}`) from My Collections
HandleEdit(id) ==
    /\ Interactive("my") /\ ~myIsLoading
    /\ \E k \in DOMAIN collections : collections[k].id = id
    /\ OpenEdit(id)

\* the Edit button of the form's list of submitted collections
FormEdit(id) ==
    /\ Interactive("contributor")
    /\ \E k \in DOMAIN submittedCollections : submittedCollections[k].id = id
    /\ OpenEdit(id)

\* the continuation of the edit route's load() after `await AsyncStorage.getItem`
EditResolve(i) ==
    /\ i \in DOMAIN loads["edit"]
    /\ editCollection' = DetailLoadResult(storage, loads["edit"][i].id)
    /\ editIsLoading' = FALSE
    /\ loads' = [loads EXCEPT !["edit"] = RemoveAt(@, i)]
    /\ UNCHANGED <<storage, clock, focused, alert, writes, formVars, myVars, homeVars,
                   detailVars, editRouteId, viewVars>>

\* what the edit route renders, and the controls that view offers
EditView ==
    IF editIsLoading THEN "loading"
    ELSE IF editCollection = NoCollection THEN "not found"
    ELSE "details"

EditControls ==
    IF EditView = "details"
    THEN {"panGesture", "openViewerAt", "setViewerOpen", "handleScrollEnd"}
    ELSE {}

(***************************************************************************)
(* The swipe-back gesture of both routes and the full-screen viewer of the *)
(* details route.  Lengths are in hundredths of the screen width.  An      *)
(* animation assigned to translateX.value runs on the UI thread until it   *)
(* reaches its target or another assignment replaces it; a replaced        *)
(* withTiming calls its callback with finished = false.                    *)
(***************************************************************************)
\* const { width: SCREEN_WIDTH } = Dimensions.get("window")
ScreenWidth == 100

\* SWIPE_THRESHOLD = SCREEN_WIDTH * 0.3
SwipeThreshold == (ScreenWidth * 3) \div 10

\* withSpring(0, { damping: 20, stiffness: 200 }), with the library's unit mass
Damping == 20
Stiffness == 200

\* a spring whose damping is below critical, c * c < 4 * k * m, passes its target
Underdamped == Damping * Damping < 4 * Stiffness

\* event.translationX of a pan: leftwards, none, just short of the threshold, on it
PanTranslations == {0 - 20, 0, 29, 30}

\* Math.max(0, event.translationX)
Clamp(x) == IF x > 0 THEN x ELSE 0

RouteView(r) == IF r = "detail" THEN DetailView ELSE EditView

\* the GestureDetector is part of the details view only
CanPan(r) == Interactive(r) /\ RouteView(r) = "details"

\* panGesture.onUpdate
PanUpdate(r, x) ==
    /\ CanPan(r)
    /\ translateX' = [translateX EXCEPT ![r] = Clamp(x)]
    /\ animation' = [animation EXCEPT ![r] = "none"]
    /\ UNCHANGED <<storage, clock, focused, alert, loads, writes, formVars, myVars,
                   homeVars, detailVars, editVars, backs, viewerOpen, viewerIndex>>

\* panGesture.onEnd: withTiming(SCREEN_WIDTH, ..., callback) or withSpring(0, ...)
PanEnd(r, x) ==
    /\ CanPan(r)
    /\ backs < MaxBacks
    /\ animation' = [animation EXCEPT
                        ![r] = IF Clamp(x) >= SwipeThreshold THEN "timing" ELSE "spring"]
    /\ UNCHANGED <<storage, clock, focused, alert, loads, writes, formVars, myVars,
                   homeVars, detailVars, editVars, translateX, backs, viewerOpen,
                   viewerIndex>>

\* values translateX.value takes on the way: withTiming moves it towards its target,
\* withSpring moves it towards 0 and, underdamped, a little past it
Frames(kind, from) ==
    IF kind = "timing" THEN {(from + ScreenWidth) \div 2}
    ELSE IF from > 0
         THEN {from \div 2} \cup (IF Underdamped THEN {0 - 1} ELSE {})
         ELSE {0}

\* one frame of the running animation
AnimationFrame(r) ==
    /\ animation[r] # "none"
    /\ \E v \in Frames(animation[r], translateX[r]) :
           translateX' = [translateX EXCEPT ![r] = v]
    /\ translateX'[r] # translateX[r]
    /\ UNCHANGED <<storage, clock, focused, alert, loads, writes, formVars, myVars,
                   homeVars, detailVars, editVars, animation, backs, viewerOpen,
                   viewerIndex>>

\* the animation reaches its target; withTiming's callback runs with finished = true
\* and calls goBack, i.e. router.back(), whose navigation is a later focus change
AnimationEnd(r) ==
    /\ animation[r] # "none"
    /\ translateX' = [translateX EXCEPT
                         ![r] = IF animation[r] = "timing" THEN ScreenWidth ELSE 0]
    /\ animation' = [animation EXCEPT ![r] = "none"]
    /\ backs' = IF animation[r] = "timing" THEN backs + 1 ELSE backs
    /\ UNCHANGED <<storage, clock, focused, alert, loads, writes, formVars, myVars,
                   homeVars, detailVars, editVars, viewerOpen, viewerIndex>>

\* Math.round(offsetX / SCREEN_WIDTH), for offsetX >= 0
RoundPage(offsetX) == (2 * offsetX + ScreenWidth) \div (2 * ScreenWidth)

\* offsets at which the paged ScrollView of n images comes to rest
RestOffsets(n) ==
    {p * ScreenWidth + d : p \in 0..(n - 1), d \in {0 - 1, 0, 1}}
        \cap (0..((n - 1) * ScreenWidth))

\* openViewerAt(index), from the thumbnail of galleryImages[index]
OpenViewerAt(index) ==
    /\ Interactive("detail") /\ DetailView = "details"
    /\ index \in 0..(Len(galleryImages) - 1)
    /\ viewerIndex' = index
    /\ viewerOpen' = TRUE
    /\ UNCHANGED <<storage, clock, focused, alert, loads, writes, formVars, myVars,
                   homeVars, detailVars, editVars, translateX, animation, backs>>

\* setViewerOpen(false): the close button, or onRequestClose
CloseViewer ==
    /\ ViewerVisible /\ alert = ""
    /\ viewerOpen' = FALSE
    /\ UNCHANGED <<storage, clock, focused, alert, loads, writes, formVars, myVars,
                   homeVars, detailVars, editVars, translateX, animation, backs,
                   viewerIndex>>

\* handleScrollEnd, from onMomentumScrollEnd of the viewer's paged ScrollView
HandleScrollEnd(offsetX) ==
    /\ ViewerVisible /\ alert = ""
    /\ offsetX \in RestOffsets(Len(galleryImages))
    /\ viewerIndex' = RoundPage(offsetX)
    /\ UNCHANGED <<storage, clock, focused, alert, loads, writes, formVars, myVars,
                   homeVars, detailVars, editVars, translateX, animation, backs,
                   viewerOpen>>

(***************************************************************************)
(* Contributor dashboard (the submission form),                            *)
(* app/contributor-dashboard.tsx                                           *)
(***************************************************************************)
WhiteSpace == {" ", "\t", "\n"}

RECURSIVE TrimStart(_)
TrimStart(cs) ==
    IF cs # <<>> /\ Head(cs) \in WhiteSpace THEN TrimStart(Tail(cs)) ELSE cs

RECURSIVE TrimEnd(_)
TrimEnd(cs) ==
    IF cs # <<>> /\ cs[Len(cs)] \in WhiteSpace
    THEN TrimEnd(SubSeq(cs, 1, Len(cs) - 1)) ELSE cs

\* String.prototype.trim
Trim(cs) == TrimEnd(TrimStart(cs))

RECURSIVE Str(_)
\* the string made of the characters cs
Str(cs) == IF cs = <<>> THEN "" ELSE Head(cs) \o Str(Tail(cs))

\* Date.now(): milliseconds since the epoch
DateNow == 1700 + clock

\* a load whose catch block leaves the list as it was
FormLoadResultKeeping(raw) ==
    IF Falsy(raw) THEN <<>>
    ELSE LET parsed == JSONparse(raw) IN
         IF parsed.threw THEN submittedCollections
         ELSE IF parsed.isArray THEN parsed.items ELSE <<>>

\* what loadSubmitted passes to setSubmittedCollections
FormLoadResult(raw) ==
    IF Falsy(raw) THEN <<>>
    ELSE LET parsed == JSONparse(raw) IN
         IF parsed.threw THEN <<>>
         ELSE IF parsed.isArray THEN parsed.items ELSE <<>>

\* the screen gains focus: useFocusEffect runs loadSubmitted; when the screen mounts,
\* useEffect runs it as well
FocusContributor ==
    /\ focused # "contributor" /\ NoDialog
    /\ Len(loads["contributor"]) <= FormBacklog
    /\ focused' = "contributor"
    /\ formMounted' = TRUE
    /\ LET issued == IF formMounted THEN <<NewLoad("")>> ELSE <<NewLoad(""), NewLoad("")>>
       IN loads' = [loads EXCEPT !["contributor"] = @ \o issued]
    /\ UNCHANGED <<storage, clock, alert, writes, title, description, rarity, imageUri,
                   extraImages, isSubmitting, submittedCollections,
                   myVars, homeVars, detailVars, editVars, viewVars>>

\* the continuation of loadSubmitted after `await AsyncStorage.getItem`
FormResolve(i) ==
    /\ i \in DOMAIN loads["contributor"]
    /\ submittedCollections' = FormLoadResult(storage)
    /\ loads' = [loads EXCEPT !["contributor"] = RemoveAt(@, i)]
    /\ UNCHANGED <<storage, clock, focused, alert, writes, title, description, rarity,
                   imageUri, extraImages, isSubmitting, formMounted,
                   myVars, homeVars, detailVars, editVars, viewVars>>

\* onChangeText={setTitle}
SetTitle(t) ==
    /\ Interactive("contributor") /\ t # title
    /\ title' = t
    /\ UNCHANGED <<storage, clock, focused, alert, loads, writes, description, rarity,
                   imageUri, extraImages, isSubmitting, submittedCollections, formMounted,
                   myVars, homeVars, detailVars, editVars, viewVars>>

\* onChangeText={setDescription}
SetDescription(d) ==
    /\ Interactive("contributor") /\ d # description
    /\ description' = d
    /\ UNCHANGED <<storage, clock, focused, alert, loads, writes, title, rarity,
                   imageUri, extraImages, isSubmitting, submittedCollections, formMounted,
                   myVars, homeVars, detailVars, editVars, viewVars>>

\* onPress={() => setRarity(option)}
SetRarity(r) ==
    /\ Interactive("contributor") /\ r \in Range(rarityOptions) /\ r # rarity
    /\ rarity' = r
    /\ UNCHANGED <<storage, clock, focused, alert, loads, writes, title, description,
                   imageUri, extraImages, isSubmitting, submittedCollections, formMounted,
                   myVars, homeVars, detailVars, editVars, viewVars>>

\* a cover pick that opens the picker without looking at the permission status
HandlePickImageUnchecked(status, uri) ==
    /\ Interactive("contributor")
    /\ imageUri' = IF uri # "" THEN uri ELSE imageUri
    /\ UNCHANGED <<storage, clock, focused, alert, loads, writes, title, description,
                   rarity, extraImages, isSubmitting, submittedCollections, formMounted,
                   myVars, homeVars, detailVars, editVars, viewVars>>

\* handlePickImage: permission status, then the picker's result ("" = cancelled)
HandlePickImage(status, uri) ==
    /\ Interactive("contributor")
    /\ IF status # "granted"
       THEN alert' = "Permission needed" /\ UNCHANGED imageUri
       ELSE /\ imageUri' = IF uri # "" THEN uri ELSE imageUri
            /\ UNCHANGED alert
    /\ UNCHANGED <<storage, clock, focused, loads, writes, title, description, rarity,
                   extraImages, isSubmitting, submittedCollections, formMounted,
                   myVars, homeVars, detailVars, editVars, viewVars>>

\* pickExtraImage: permission status, then the picker's result ("" = cancelled)
PickExtraImage(status, uri) ==
    /\ Interactive("contributor")
    /\ Len(extraImages) < MaxCards
    /\ IF status # "granted"
       THEN alert' = "Permission needed" /\ UNCHANGED extraImages
       ELSE /\ extraImages' = IF uri # "" THEN Append(extraImages, uri) ELSE extraImages
            /\ UNCHANGED alert
    /\ UNCHANGED <<storage, clock, focused, loads, writes, title, description, rarity,
                   imageUri, isSubmitting, submittedCollections, formMounted,
                   myVars, homeVars, detailVars, editVars, viewVars>>

\* removeCardImage(index): prev.filter((_, i) => i !== index), index counted from 0
RemoveCardImage(index) ==
    /\ Interactive("contributor")
    /\ index + 1 \in DOMAIN extraImages
    /\ extraImages' = RemoveAt(extraImages, index + 1)
    /\ UNCHANGED <<storage, clock, focused, alert, loads, writes, title, description, rarity,
                   imageUri, isSubmitting, submittedCollections, formMounted,
                   myVars, homeVars, detailVars, editVars, viewVars>>

\* the check without the trims
MissingInfoUntrimmed ==
    title = <<>> \/ description = <<>> \/ rarity = "" \/ imageUri = ""

\* !title.trim() || !description.trim() || !rarity || !imageUri
MissingInfo ==
    Trim(title) = <<>> \/ Trim(description) = <<>> \/ rarity = "" \/ imageUri = ""

\* the device clock advances
Tick ==
    /\ clock < MaxTicks
    /\ clock' = clock + 1
    /\ UNCHANGED <<storage, focused, alert, loads, writes,
                   formVars, myVars, homeVars, detailVars, editVars, viewVars>>

\* a record whose id steps past the ids the list already has
newCollectionFreshId ==
    LET taken == \E k \in DOMAIN submittedCollections :
                     submittedCollections[k].id = ToString(DateNow)
    IN [id |-> IF taken THEN ToString(DateNow + 1) ELSE ToString(DateNow),
        title |-> Str(Trim(title)),
        description |-> Str(Trim(description)),
        rarity |-> rarity,
        imageUri |-> imageUri,
        images |-> Images(extraImages),
        status |-> "pending",
        createdAt |-> "iso" \o ToString(DateNow)]

\* the record handleSubmit builds
newCollection ==
    [id |-> ToString(DateNow),
     title |-> Str(Trim(title)),
     description |-> Str(Trim(description)),
     rarity |-> rarity,
     imageUri |-> imageUri,
     images |-> Images(extraImages),
     status |-> "pending",
     createdAt |-> "iso" \o ToString(DateNow)]

\* const updated = [newCollection, ...submittedCollections]
updated == <<newCollection>> \o submittedCollections

\* a submit that resets the form as soon as it has called setItem
HandleSubmitClearing ==
    /\ Interactive("contributor")
    /\ ~isSubmitting
    /\ IF MissingInfo
       THEN /\ alert' = "Missing info"
            /\ UNCHANGED <<writes, isSubmitting, submittedCollections, title, description,
                           rarity, imageUri, extraImages>>
       ELSE /\ Len(submittedCollections) <= MaxRecords
            /\ isSubmitting' = TRUE
            /\ submittedCollections' = updated
            /\ writes' = Append(writes, [screen |-> "contributor",
                                         text |-> JSONstringify(updated)])
            /\ title' = <<>> /\ description' = <<>> /\ rarity' = "" /\ imageUri' = ""
            /\ extraImages' = <<>>
            /\ UNCHANGED alert
    /\ UNCHANGED <<storage, clock, focused, loads, formMounted, myVars, homeVars,
                   detailVars, editVars, viewVars>>

\* handleSubmit up to `await AsyncStorage.setItem`; the button is disabled while
\* isSubmitting
HandleSubmit ==
    /\ Interactive("contributor")
    /\ ~isSubmitting
    /\ IF MissingInfo
       THEN /\ alert' = "Missing info"
            /\ UNCHANGED <<writes, isSubmitting, submittedCollections, editVars>>
       ELSE /\ Len(submittedCollections) <= MaxRecords
            /\ isSubmitting' = TRUE
            /\ submittedCollections' = updated
            /\ writes' = Append(writes, [screen |-> "contributor",
                                         text |-> JSONstringify(updated)])
            /\ UNCHANGED alert
    /\ UNCHANGED <<storage, clock, focused, loads, title, description, rarity, imageUri,
                   extraImages, formMounted, myVars, homeVars, detailVars, editVars,
                   viewVars>>

\* setItem resolves: the text is stored, then the rest of the try block and finally
SubmitResolve(i) ==
    /\ i \in DOMAIN writes
    /\ writes[i].screen = "contributor"
    /\ storage' = setItem(storage, writes[i].text)
    /\ writes' = RemoveAt(writes, i)
    /\ alert' = "Submitted"
    /\ title' = <<>> /\ description' = <<>> /\ rarity' = "" /\ imageUri' = ""
    /\ extraImages' = <<>>
    /\ isSubmitting' = FALSE
    /\ UNCHANGED <<clock, focused, loads, submittedCollections, formMounted,
                   myVars, homeVars, detailVars, editVars, viewVars>>

\* a rejection handled without the finally block
SubmitRejectNoFinally(i) ==
    /\ i \in DOMAIN writes
    /\ writes[i].screen = "contributor"
    /\ writes' = RemoveAt(writes, i)
    /\ alert' = "Error"
    /\ UNCHANGED <<storage, clock, focused, loads, title, description, rarity, imageUri,
                   extraImages, isSubmitting, submittedCollections, formMounted,
                   myVars, homeVars, detailVars, editVars, viewVars>>

\* setItem rejects: nothing is stored, then the catch block and finally
SubmitReject(i) ==
    /\ i \in DOMAIN writes
    /\ writes[i].screen = "contributor"
    /\ writes' = RemoveAt(writes, i)
    /\ alert' = "Error"
    /\ isSubmitting' = FALSE
    /\ UNCHANGED <<storage, clock, focused, loads, title, description, rarity, imageUri,
                   extraImages, submittedCollections, formMounted,
                   myVars, homeVars, detailVars, editVars, viewVars>>

(***************************************************************************)
(* Specifications                                                          *)
(***************************************************************************)
NextHome ==
    \/ FocusAccount
    \/ FocusIndex
    \/ \E i \in 1..(HomeBacklog + 1) : HomeResolve(i)
    \/ \E f \in Range(rarityFilters) : SetSelectedFilter(f)

SpecHome == Init /\ [][NextHome]_vars

NextDetail ==
    \/ FocusAccount
    \/ \E id \in RouteIds : OpenDetail(id)
    \/ \E i \in 1..(DetailBacklog + 1) : DetailResolve(i)

SpecDetail == Init /\ [][NextDetail]_vars

\* what the user types and picks in the form
TitleInputs == {<<" ">>, <<" ", "T", " ">>}
DescriptionInputs == {<<"\t">>, <<"D", " ", "d">>}
RarityTaps == {"Rare"}
CoverUris == {"uri1"}
CardUris == {"card1"}
PermissionStatuses == {"granted", "denied"}

FormBlobs == {NullRaw, [kind |-> "garbage", items |-> <<>>], JSONstringify(<<RecOld>>)}

NextForm ==
    \/ FocusContributor
    \/ DismissAlert
    \/ \E t \in TitleInputs : SetTitle(t)
    \/ \E d \in DescriptionInputs : SetDescription(d)
    \/ \E r \in RarityTaps : SetRarity(r)
    \/ \E st \in PermissionStatuses, u \in CoverUris \cup {""} : HandlePickImage(st, u)
    \/ /\ Len(extraImages) < MaxCards - 1
       /\ \E st \in PermissionStatuses, u \in CardUris \cup {""} : PickExtraImage(st, u)
    \/ \E k \in 0..(MaxCards - 1) : RemoveCardImage(k)
    \/ HandleSubmit
    \/ \E i \in 1..(FormBacklog + 2) : FormResolve(i)
    \/ \E i \in DOMAIN writes : SubmitResolve(i)
    \/ \E i \in DOMAIN writes : SubmitReject(i)

SpecForm == InitWith(FormBlobs) /\ [][NextForm]_vars

\* the three tabs that load the whole list, against one store: the user moves between
\* them and submits well-formed collections
NextStore ==
    \/ FocusIndex
    \/ FocusMy
    \/ FocusContributor
    \/ \E i \in 1..(HomeBacklog + 1) : HomeResolve(i)
    \/ \E i \in 1..(MyBacklog + 1) : MyResolve(i)
    \/ \E i \in 1..(FormBacklog + 2) : FormResolve(i)
    \/ DismissAlert
    \/ SetTitle(<<" ", "T", " ">>)
    \/ SetDescription(<<"D", " ", "d">>)
    \/ \E r \in RarityTaps : SetRarity(r)
    \/ \E u \in CoverUris : HandlePickImage("granted", u)
    \/ HandleSubmit
    \/ \E i \in DOMAIN writes : SubmitResolve(i)
    \/ \E i \in DOMAIN writes : SubmitReject(i)

StoreBlobs ==
    { NullRaw, [kind |-> "garbage", items |-> <<>>], [kind |-> "nonarray", items |-> <<>>],
      JSONstringify(<<RecOld>>) }

SpecStore == InitWith(StoreBlobs) /\ [][NextStore]_vars

\* My Collections alone: loading and deleting
MineBlobs ==
    { NullRaw, JSONstringify(<<RecOld, RecA>>), JSONstringify(<<RecA, RecA2>>),
      JSONstringify(<<RecBad, RecA, RecOld>>) }

NextMine ==
    \/ FocusAccount
    \/ FocusMy
    \/ \E i \in 1..(MyBacklog + 1) : MyResolve(i)
    \/ \E k \in DOMAIN collections : HandleDelete(collections[k].id)
    \/ CancelDelete
    \/ ConfirmDelete
    \/ \E i \in DOMAIN writes : DeleteResolve(i)
    \/ \E i \in DOMAIN writes : DeleteReject(i)
    \/ DismissAlert

SpecMine == InitWith(MineBlobs) /\ [][NextMine]_vars

\* the two screens that write: the form submits and My Collections deletes, and every
\* write succeeds. The user fills the form from top to bottom and submits it complete;
\* the run goes on until the "Submitted" alert is up.
WriterBlobs == {JSONstringify(<<RecOld>>)}

NextWriters ==
    \/ FocusContributor
    \/ \E i \in 1..(FormBacklog + 2) : FormResolve(i)
    \/ title = <<>> /\ SetTitle(<<" ", "T", " ">>)
    \/ title # <<>> /\ description = <<>> /\ SetDescription(<<"D", " ", "d">>)
    \/ description # <<>> /\ rarity = "" /\ \E r \in RarityTaps : SetRarity(r)
    \/ rarity # "" /\ imageUri = "" /\ \E u \in CoverUris : HandlePickImage("granted", u)
    \/ imageUri # "" /\ HandleSubmit
    \/ \E i \in DOMAIN writes : SubmitResolve(i)
    \/ FocusMy
    \/ \E i \in 1..(MyBacklog + 1) : MyResolve(i)
    \/ \E k \in DOMAIN collections : HandleDelete(collections[k].id)
    \/ CancelDelete
    \/ ConfirmDelete
    \/ \E i \in DOMAIN writes : DeleteResolve(i)

SpecWriters == InitWith(WriterBlobs) /\ [][NextWriters]_vars

\* the same two screens when a write may also fail
NextFailingWrites ==
    \/ NextWriters
    \/ DismissAlert
    \/ \E i \in DOMAIN writes : SubmitReject(i)
    \/ \E i \in DOMAIN writes : DeleteReject(i)

SpecFailingWrites == InitWith(WriterBlobs) /\ [][NextFailingWrites]_vars

\* the form filled from top to bottom, with or without a card image
FillForm ==
    \/ title = <<>> /\ SetTitle(<<" ", "T", " ">>)
    \/ title # <<>> /\ description = <<>> /\ SetDescription(<<"D", " ", "d">>)
    \/ description # <<>> /\ rarity = "" /\ \E r \in RarityTaps : SetRarity(r)
    \/ rarity # "" /\ imageUri = "" /\ \E u \in CoverUris : HandlePickImage("granted", u)
    \/ /\ imageUri # "" /\ Len(extraImages) < MaxCards - 1
       /\ \E u \in CardUris : PickExtraImage("granted", u)

\* and submitted complete
FillAndSubmit ==
    \/ FillForm
    \/ imageUri # "" /\ HandleSubmit
    \/ \E i \in DOMAIN writes : SubmitResolve(i)
    \/ DismissAlert

\* the two writers with the "Submitted" alert dismissed, so that a submitted record can
\* be listed by My Collections and written back by a delete of another record
NextStatus ==
    \/ FocusContributor
    \/ \E i \in 1..(FormBacklog + 2) : FormResolve(i)
    \/ storage \in WriterBlobs /\ isSubmitting = FALSE /\ FillForm
    \/ imageUri # "" /\ HandleSubmit
    \/ \E i \in DOMAIN writes : SubmitResolve(i)
    \/ DismissAlert
    \/ FocusMy
    \/ \E i \in 1..(MyBacklog + 1) : MyResolve(i)
    \/ \E k \in DOMAIN collections : HandleDelete(collections[k].id)
    \/ CancelDelete
    \/ ConfirmDelete
    \/ \E i \in DOMAIN writes : DeleteResolve(i)

SpecStatus == InitWith(WriterBlobs) /\ [][NextStatus]_vars

\* the empty-store scenario: one collection is submitted on the form, then the user
\* looks at My Collections and at the details of the new record and of a seed
EmptyBlobs == {NullRaw, JSONstringify(<<>>)}

ScenarioIds == {ToString(DateNow), "1"}

NextScenario ==
    \/ FocusContributor
    \/ \E i \in 1..(FormBacklog + 2) : FormResolve(i)
    \/ storage \in EmptyBlobs /\ isSubmitting = FALSE /\ FillForm
    \/ imageUri # "" /\ HandleSubmit
    \/ \E i \in DOMAIN writes : SubmitResolve(i)
    \/ DismissAlert
    \/ FocusMy
    \/ \E i \in 1..(MyBacklog + 1) : MyResolve(i)
    \/ \E id \in ScenarioIds : OpenDetail(id)
    \/ \E i \in 1..(DetailBacklog + 1) : DetailResolve(i)

SpecScenario == InitWith(EmptyBlobs) /\ [][NextScenario]_vars

\* the form alone while the clock runs
NextClock ==
    \/ FocusContributor
    \/ \E i \in 1..(FormBacklog + 2) : FormResolve(i)
    \/ FillAndSubmit
    \/ Tick

SpecClock == InitWith({NullRaw}) /\ [][NextClock]_vars

\* the Edit buttons of My Collections and of the form's list, and the route they open
\* the form alone over an empty store: filled from top to bottom, card images of two
\* kinds added and removed, submitted at any point, the write stored or failing
OrderedCardUris == {"card1", "card2"}

NextInputs ==
    \/ FocusContributor
    \/ \E i \in 1..(FormBacklog + 2) : FormResolve(i)
    \/ title = <<>> /\ SetTitle(<<" ", "T", " ">>)
    \/ title # <<>> /\ description = <<>> /\ SetDescription(<<"D", " ", "d">>)
    \/ description # <<>> /\ rarity = "" /\ \E r \in RarityTaps : SetRarity(r)
    \/ rarity # "" /\ imageUri = "" /\ \E u \in CoverUris : HandlePickImage("granted", u)
    \/ imageUri # "" /\ \E u \in OrderedCardUris : PickExtraImage("granted", u)
    \/ \E k \in 0..(MaxCards - 1) : RemoveCardImage(k)
    \/ storage = NullRaw /\ HandleSubmit
    \/ \E i \in DOMAIN writes : SubmitResolve(i)
    \/ \E i \in DOMAIN writes : SubmitReject(i)
    \/ DismissAlert

SpecInputs == InitWith({NullRaw}) /\ [][NextInputs]_vars

\* the details route and its viewer over a stored record with two card images and a
\* seed with one image
ViewerBlobs == {JSONstringify(<<RecA>>)}
ViewerIds == {RecA.id, "1"}

NextViewer ==
    \/ FocusAccount
    \/ \E id \in ViewerIds : OpenDetail(id)
    \/ \E i \in 1..(DetailBacklog + 1) : DetailResolve(i)
    \/ \E k \in 0..MaxCards : OpenViewerAt(k)
    \/ \E x \in 0..(MaxCards * ScreenWidth + 1) : HandleScrollEnd(x)
    \/ CloseViewer

SpecViewer == InitWith(ViewerBlobs) /\ [][NextViewer]_vars

\* the busy flags: in one session the loads of My Collections and of the details
\* route, in another the form's submit, each storage call resolving or rejecting
BusyIds == {"1", RecOld.id}

Reading == routeId # Unmounted \/ ~myIsLoading \/ loads["my"] # <<>>

NextBusy ==
    \/ FocusAccount
    \/ ~formMounted /\ FocusMy
    \/ \E i \in 1..(MyBacklog + 1) : MyResolve(i)
    \/ \E i \in 1..(MyBacklog + 1) : MyReject(i)
    \/ ~formMounted /\ \E id \in BusyIds : OpenDetail(id)
    \/ \E i \in 1..(DetailBacklog + 1) : DetailResolve(i)
    \/ \E i \in 1..(DetailBacklog + 1) : DetailReject(i)
    \/ ~Reading /\ FocusContributor
    \/ \E i \in 1..(FormBacklog + 2) : FormResolve(i)
    \/ storage \in WriterBlobs /\ isSubmitting = FALSE /\ FillForm
    \/ imageUri # "" /\ HandleSubmit
    \/ \E i \in 1..(MaxDeletes + 2) : SubmitResolve(i)
    \/ \E i \in 1..(MaxDeletes + 2) : SubmitReject(i)
    \/ DismissAlert

\* a storage call that was made returns: it resolves or it rejects
StorageReturns ==
    /\ WF_vars(\E i \in 1..(MyBacklog + 1) : MyResolve(i) \/ MyReject(i))
    /\ WF_vars(\E i \in 1..(DetailBacklog + 1) : DetailResolve(i) \/ DetailReject(i))
    /\ WF_vars(\E i \in 1..(MaxDeletes + 2) : SubmitResolve(i) \/ SubmitReject(i))

SpecBusy == InitWith(WriterBlobs) /\ [][NextBusy]_vars /\ StorageReturns

\* every screen over one store: in one session the user browses (the marketplace and
\* its filter, the details of the stored record and its viewer), in another they use
\* the form, with one submission, and My Collections
FrameFilters == {"All", "Epic"}

Browsing == ~formMounted /\ myIsLoading /\ loads["my"] = <<>>
Browsed == focused \in {"index", "detail"} \/ loads["index"] # <<>>
               \/ userCollections # <<>> \/ routeId # Unmounted

NextFrame ==
    \/ Browsing /\ FocusIndex
    \/ \E i \in 1..(HomeBacklog + 1) : HomeResolve(i)
    \/ Browsing /\ \E f \in FrameFilters : SetSelectedFilter(f)
    \/ Browsing /\ focused = "index" /\ OpenDetail(RecOld.id)
    \/ \E i \in 1..(DetailBacklog + 1) : DetailResolve(i)
    \/ Browsing /\ \E k \in 0..MaxCards : OpenViewerAt(k)
    \/ CloseViewer
    \/ ~Browsed /\ FocusContributor
    \/ \E i \in 1..(FormBacklog + 2) : FormResolve(i)
    \/ storage \in WriterBlobs /\ isSubmitting = FALSE /\ FillForm
    \/ RemoveCardImage(0)
    \/ HandleSubmit
    \/ \E i \in DOMAIN writes : SubmitResolve(i)
    \/ DismissAlert
    \/ ~Browsed /\ FocusMy
    \/ \E i \in 1..(MyBacklog + 1) : MyResolve(i)
    \/ \E k \in DOMAIN collections : HandleDelete(collections[k].id)
    \/ CancelDelete
    \/ ConfirmDelete
    \/ \E i \in DOMAIN writes : DeleteResolve(i)

SpecFrame == InitWith(WriterBlobs) /\ [][NextFrame]_vars

\* the swipe-back gesture on both routes: a seed opened from the marketplace, a stored
\* record opened by Edit from My Collections
GestureBlobs == {JSONstringify(<<RecA>>)}

NextGesture ==
    \/ FocusAccount
    \/ OpenDetail("1")
    \/ \E i \in 1..(DetailBacklog + 1) : DetailResolve(i)
    \/ FocusMy
    \/ \E i \in 1..(MyBacklog + 1) : MyResolve(i)
    \/ \E k \in DOMAIN collections : HandleEdit(collections[k].id)
    \/ \E i \in 1..(DetailBacklog + 1) : EditResolve(i)
    \/ \E r \in Routes, x \in PanTranslations : PanUpdate(r, x)
    \/ \E r \in Routes, x \in PanTranslations : PanEnd(r, x)
    \/ \E r \in Routes : AnimationFrame(r)
    \/ \E r \in Routes : AnimationEnd(r)

SpecGesture == InitWith(GestureBlobs) /\ [][NextGesture]_vars

EditBlobs == {NullRaw, JSONstringify(<<RecOld, RecA>>), JSONstringify(<<RecSeed, RecOld>>)}

NextEdit ==
    \/ FocusMy
    \/ \E i \in 1..(MyBacklog + 1) : MyResolve(i)
    \/ FocusContributor
    \/ \E i \in 1..(FormBacklog + 2) : FormResolve(i)
    \/ \E id \in RouteIds : HandleEdit(id)
    \/ \E id \in RouteIds : FormEdit(id)
    \/ \E i \in 1..(DetailBacklog + 1) : EditResolve(i)

SpecEdit == InitWith(EditBlobs) /\ [][NextEdit]_vars

(***************************************************************************)
(* Properties                                                              *)
(***************************************************************************)
\* the sequence of submitted records the store holds: the stored array, and
\* the empty sequence when the key is absent or its text is not a JSON array
StoredUserSequence(raw) == IF raw.kind = "array" THEN raw.items ELSE <<>>

HasId(list, id) == \E k \in DOMAIN list : list[k].id = id

\* this step is the continuation of a load of the marketplace, of My Collections, of
\* the form
HomeResolved == Len(loads'["index"]) < Len(loads["index"])
MyResolved   == Len(loads'["my"]) < Len(loads["my"])
FormResolved == Len(loads'["contributor"]) < Len(loads["contributor"])

\* this step is handleSubmit passing validation and calling setItem
SubmitAccepted == HandleSubmit /\ Len(writes') = Len(writes) + 1

\* this step is the i-th setItem resolving
SubmitResolvedAt(i) ==
    /\ i \in DOMAIN writes
    /\ writes' = RemoveAt(writes, i)
    /\ alert' = "Submitted"

\* C1: what submit writes under the key is the list it was given, and My Collections
\* loads a stored array element by element, in order, with `images` the empty
\* sequence wherever the stored record has no array-valued `images`
C1_RoundTrip ==
    [][/\ SubmitAccepted =>
             writes'[Len(writes')].text = [kind |-> "array", items |-> submittedCollections']
       /\ \A i \in DOMAIN writes : SubmitResolvedAt(i) => storage' = writes[i].text
       /\ (MyResolved /\ storage.kind = "array") =>
             /\ Len(collections') = Len(storage.items)
             /\ \A k \in DOMAIN storage.items :
                  LET w == storage.items[k]
                      r == collections'[k]
                  IN /\ r.id = w.id /\ r.title = w.title /\ r.description = w.description
                     /\ r.rarity = w.rarity /\ r.imageUri = w.imageUri
                     /\ r.status = w.status /\ r.createdAt = w.createdAt
                     /\ r.images = IF w.images.kind = "array" THEN w.images
                                   ELSE [kind |-> "array", items |-> <<>>]]_vars

\* My Collections shows a record the form wrote, followed by the older record whose
\* stored form has no `images`
C1_Witness ==
    /\ ~myIsLoading /\ loads["my"] = <<>>
    /\ storage.kind = "array" /\ Len(storage.items) = 2
    /\ storage.items[2].images.kind = "absent"
    /\ Len(collections) = 2
    /\ collections[1].id = ToString(DateNow) /\ collections[1].title = "T"
    /\ collections[2].id = "8" /\ collections[2].images = Images(<<>>)

\* C2: on the marketplace, My Collections and the form, a load that finds the key
\* absent, or text that is not JSON, or JSON that is not an array, leaves that
\* screen's list empty and raises no alert
C2_LoadFailsSoft ==
    [][storage.kind \in {"null", "empty", "garbage", "nonarray"} =>
          /\ HomeResolved => (userCollections' = <<>> /\ alert' = alert)
          /\ MyResolved => (collections' = <<>> /\ alert' = alert)
          /\ FormResolved => (submittedCollections' = <<>> /\ alert' = alert)]_vars

\* the form held a record whose write was rejected, and a load over unparseable text
\* emptied its list; My Collections loaded the same text
C2_Witness ==
    /\ storage.kind = "garbage"
    /\ alert = "Error" /\ formMounted /\ loads["contributor"] = <<>>
    /\ submittedCollections = <<>>
    /\ ~myIsLoading /\ loads["my"] = <<>> /\ collections = <<>>

\* C3: after a load, the form, My Collections and the details screen hold only records
\* whose `images` is a sequence, and so does the list submit persists
C3_ImagesCoerced ==
    [][/\ FormResolved =>
             \A k \in DOMAIN submittedCollections' :
                 submittedCollections'[k].images.kind = "array"
       /\ MyResolved =>
             \A k \in DOMAIN collections' : collections'[k].images.kind = "array"
       /\ (Len(loads'["detail"]) < Len(loads["detail"]) /\ collection'.type = "user") =>
             collection'.images.kind = "array"
       /\ SubmitAccepted =>
             \A k \in DOMAIN submittedCollections' :
                 submittedCollections'[k].images.kind = "array"]_vars

\* this step is the continuation of the i-th load of the details screen
DetailResolvedAt(i) ==
    /\ i \in DOMAIN loads["detail"]
    /\ loads'["detail"] = RemoveAt(loads["detail"], i)
    /\ Len(loads'["detail"]) < Len(loads["detail"])

\* C4: when the stored text is unparseable or not an array, resolving a seed id
\* gives the seed-tagged variant and any other id gives "not found"
C4_DetailFailsSoft ==
    [][\A i \in DOMAIN loads["detail"] :
         (DetailResolvedAt(i) /\ storage.kind \in {"garbage", "nonarray"}) =>
            LET id == loads["detail"][i].id IN
            IF HasId(detailSeedCollections, id)
            THEN collection'.type = "seed" /\ collection'.id = id
            ELSE collection' = NoCollection]_vars

\* home has focus and every load it issued has resolved
HomeLoaded == focused = "index" /\ loads["index"] = <<>>

\* C5: with filter "All" the list is every loaded user item in stored order followed by
\* every seed item in seed order, nothing dropped, duplicated or reordered
C5_AllShowsMerged ==
    /\ selectedFilter = "All" =>
         /\ Len(filteredCollections) = Len(userCollections) + Len(seedCollections)
         /\ \A i \in DOMAIN userCollections : filteredCollections[i] = userCollections[i]
         /\ \A j \in DOMAIN seedCollections :
                filteredCollections[Len(userCollections) + j] = seedCollections[j]
    /\ HomeLoaded =>
         LET stored == StoredUserSequence(storage) IN
         /\ Len(userCollections) = Len(stored)
         /\ \A k \in DOMAIN stored :
                /\ userCollections[k].id = stored[k].id
                /\ userCollections[k].title = stored[k].title
                /\ userCollections[k].rarity = stored[k].rarity

C5_Witness ==
    /\ HomeLoaded /\ selectedFilter = "All"
    /\ Len(filteredCollections) = 6
    /\ filteredCollections[1].id = "8" /\ filteredCollections[2].id = "9"
    /\ filteredCollections[3].id = "1" /\ filteredCollections[6].id = "4"

\* positions of the merged sequence whose rarity is the selected filter
Matching == {i \in DOMAIN allCollections : allCollections[i].rarity = selectedFilter}

\* C6: with a rarity filter the list is exactly the items of the merged sequence with
\* that rarity, in the merged sequence's order
C6_FilterExact ==
    selectedFilter # "All" =>
        /\ Len(filteredCollections) = Cardinality(Matching)
        /\ \A i \in Matching :
               filteredCollections[Cardinality({j \in Matching : j <= i})] = allCollections[i]
        /\ \A k \in DOMAIN filteredCollections : filteredCollections[k].rarity = selectedFilter

C6_Witness ==
    /\ HomeLoaded /\ selectedFilter = "Rare"
    /\ Len(filteredCollections) = 2
    /\ filteredCollections[1].creator = "You" /\ filteredCollections[1].id = "9"
    /\ filteredCollections[2].id = "2"
    /\ Len(userCollections) = 2

\* C7: the lookup returns the user-tagged variant for an id only in the stored user
\* sequence, the seed-tagged variant for an id only in the seed data, and "not found"
\* for an id in neither
C7_DetailLookup ==
    [][\A i \in DOMAIN loads["detail"] :
         DetailResolvedAt(i) =>
            LET id     == loads["detail"][i].id
                inUser == HasId(StoredUserSequence(storage), id)
                inSeed == HasId(detailSeedCollections, id)
            IN /\ (inUser /\ ~inSeed) => (collection'.type = "user" /\ collection'.id = id)
               /\ (~inUser /\ inSeed) => (collection'.type = "seed" /\ collection'.id = id)
               /\ (~inUser /\ ~inSeed) => collection' = NoCollection]_vars

\* with the key absent or holding a JSON array the three cases of the lookup hold
C7_WellFormedStore ==
    [][\A i \in DOMAIN loads["detail"] :
         (DetailResolvedAt(i) /\ storage.kind \in {"null", "empty", "array"}) =>
            LET id     == loads["detail"][i].id
                inUser == HasId(StoredUserSequence(storage), id)
                inSeed == HasId(detailSeedCollections, id)
            IN /\ (inUser /\ ~inSeed) => (collection'.type = "user" /\ collection'.id = id)
               /\ (~inUser /\ inSeed) => (collection'.type = "seed" /\ collection'.id = id)
               /\ (~inUser /\ ~inSeed) => collection' = NoCollection]_vars

\* C8: an id held by a stored user record resolves to the user-tagged variant of the
\* first such record in stored order, also when a seed item has the same id
C8_UserBeforeSeed ==
    [][\A i \in DOMAIN loads["detail"] :
         DetailResolvedAt(i) =>
            LET id     == loads["detail"][i].id
                stored == StoredUserSequence(storage)
            IN \A k \in DOMAIN stored :
                 (stored[k].id = id /\ \A j \in 1..(k - 1) : stored[j].id # id) =>
                    /\ collection'.type = "user"
                    /\ collection'.id = id
                    /\ collection'.title = stored[k].title
                    /\ collection'.description = stored[k].description
                    /\ collection'.rarity = stored[k].rarity
                    /\ collection'.imageUri = stored[k].imageUri
                    /\ collection'.createdAt = stored[k].createdAt]_vars

C8_Witness ==
    /\ routeId = "1" /\ ~isLoading /\ loads["detail"] = <<>>
    /\ HasId(StoredUserSequence(storage), "1") /\ HasId(detailSeedCollections, "1")
    /\ collection.type = "user" /\ collection.id = "1" /\ collection.title = "Shadow"

\* a string that is empty or all white space
Blank(cs) == \A i \in DOMAIN cs : cs[i] \in WhiteSpace

\* C9: a submit with a blank title or description, no rarity or no cover raises the
\* validation alert, calls no setItem and leaves the store and the form's list as they
\* were; with the four present it is accepted whatever the card images
C9_RejectsMissing ==
    [][HandleSubmit =>
          IF Blank(title) \/ Blank(description) \/ rarity = "" \/ imageUri = ""
          THEN /\ alert' = "Missing info"
               /\ writes' = writes /\ storage' = storage
               /\ submittedCollections' = submittedCollections
          ELSE /\ alert' = alert
               /\ Len(writes') = Len(writes) + 1]_vars

\* rejected for a white-space title alone, with a list loaded and nothing written
C9_Witness ==
    /\ alert = "Missing info"
    /\ title = <<" ">> /\ ~Blank(description) /\ rarity # "" /\ imageUri # ""
    /\ extraImages # <<>>
    /\ submittedCollections = <<RecOld>> /\ storage = JSONstringify(<<RecOld>>)
    /\ writes = <<>>

\* C10: an accepted submit puts the new record before the form's list, and when its
\* setItem resolves the store holds that sequence and the form's list equals it
C10_SubmitPrepends ==
    [][/\ SubmitAccepted =>
             /\ Len(submittedCollections') = Len(submittedCollections) + 1
             /\ submittedCollections'[1].title = Str(Trim(title))
             /\ submittedCollections'[1].status = "pending"
             /\ \A k \in DOMAIN submittedCollections :
                    submittedCollections'[k + 1] = submittedCollections[k]
             /\ writes'[Len(writes')].text.items = submittedCollections'
       /\ \A i \in DOMAIN writes :
             SubmitResolvedAt(i) =>
                /\ storage' = writes[i].text /\ storage'.kind = "array"
                /\ submittedCollections' = storage'.items]_vars

\* this step is the Delete button of the prompt; this step is the i-th write resolving
\* as a delete's setItem
DeleteConfirmed == pendingDelete # NoDelete /\ Len(writes') = Len(writes) + 1

DeleteResolvedAt(i) == DeleteResolve(i)

\* C11: confirming the delete of id X, asked for on a list of n records that has X,
\* leaves in memory that list without one record, of id X, and with no record of id X
\* left, the others in order; that sequence is what is written and then stored
C11_DeleteRemovesOne ==
    [][/\ DeleteConfirmed =>
             LET S == pendingDelete.list
                 X == pendingDelete.id
             IN /\ Len(collections') = Len(S) - 1
                /\ ~HasId(collections', X)
                /\ \E k \in DOMAIN S : S[k].id = X /\ collections' = RemoveAt(S, k)
                /\ writes'[Len(writes')].text = JSONstringify(collections')
       /\ \A i \in DOMAIN writes : DeleteResolvedAt(i) => storage' = writes[i].text]_vars

\* C12: removing an id that no record of the list has gives the list back, record for
\* record; cancelling the prompt issues no write and changes neither the list nor the
\* store
C12_AbsentOrCancelled ==
    [][/\ \A x \in RouteIds :
             ~HasId(collections, x) => DeleteById(collections, x) = collections
       /\ DeleteConfirmed =>
             \A k \in DOMAIN collections' :
                 \E j \in DOMAIN pendingDelete.list : collections'[k] = pendingDelete.list[j]
       /\ (pendingDelete # NoDelete /\ pendingDelete' = NoDelete /\ ~DeleteConfirmed) =>
             /\ writes' = writes /\ storage' = storage
             /\ collections' = collections /\ alert' = alert]_vars

\* the prompt for a listed record is on display, over a list that lacks other ids
C12_Witness ==
    /\ pendingDelete # NoDelete /\ pendingDelete.id = "8"
    /\ Len(collections) = 3 /\ ~HasId(collections, "404") /\ ~HasId(collections, "1")
    /\ writes = <<>> /\ storage = JSONstringify(<<RecBad, RecA, RecOld>>)

\* C13: the route /edit-collection/<id>, showing a stored record, lets the user save it
C13_EditSavesInPlace ==
    (focused = "edit" /\ EditView = "details" /\ editCollection.type = "user")
        => "save" \in EditControls

\* while the edit route has focus no setItem is issued and the store changes only by
\* writes issued elsewhere
C13_EditRouteWritesNothing ==
    [][focused = "edit" => Len(writes') <= Len(writes)]_vars

\* C14: when a submit's or a delete's setItem fails, the error alert goes up, the store
\* keeps its text, and the screen's list is left as the operation made it: with the new
\* record, without the deleted one
C14_FailedWriteNoRollback ==
    [][/\ \A i \in DOMAIN writes :
             SubmitReject(i) =>
                /\ alert' = "Error" /\ storage' = storage
                /\ submittedCollections' = submittedCollections
                /\ submittedCollections' = writes[i].text.items
       /\ \A i \in DOMAIN writes :
             DeleteReject(i) =>
                /\ alert' = "Error" /\ storage' = storage
                /\ collections' = collections
                /\ collections' = writes[i].text.items]_vars

\* the catch blocks themselves: alert, store untouched, list untouched
C14_HandlersLeaveList ==
    [][/\ \A i \in DOMAIN writes :
             SubmitReject(i) =>
                /\ alert' = "Error" /\ storage' = storage
                /\ submittedCollections' = submittedCollections
       /\ \A i \in DOMAIN writes :
             DeleteReject(i) =>
                /\ alert' = "Error" /\ storage' = storage
                /\ collections' = collections]_vars

\* C16: whichever of a submit's and a delete's setItem resolves, the store then holds
\* exactly the text that call was given, and a text in flight is never altered; so the
\* write that resolves last decides the store
C16_LastWriterWins ==
    [][/\ \A i \in DOMAIN writes :
             (SubmitResolve(i) \/ DeleteResolve(i)) =>
                /\ storage' = writes[i].text
                /\ writes' = RemoveAt(writes, i)
       /\ Len(writes') > Len(writes) => SubSeq(writes', 1, Len(writes)) = writes]_vars

\* a submit's and a delete's write are in flight together, with different texts, and
\* the submit's would bring back the record the delete removes
C16_Witness ==
    /\ Len(writes) = 2
    /\ writes[1].screen = "contributor" /\ writes[2].screen = "my"
    /\ HasId(writes[1].text.items, "8") /\ ~HasId(writes[2].text.items, "8")
    /\ storage = JSONstringify(<<RecOld>>)

\* C15: every time the marketplace, My Collections or the details route gains focus it
\* starts a read of the store
C15_FocusStartsRead ==
    [][(focused' # focused /\ focused' \in {"index", "my", "detail"}) =>
          Len(loads'[focused']) = Len(loads[focused']) + 1]_vars

\* on the two tabs that do reload, the completed read shows what the store holds
C15_TabsReload ==
    [][/\ (focused' # focused /\ focused' \in {"index", "my"}) =>
             Len(loads'[focused']) = Len(loads[focused']) + 1
       /\ HomeResolved => userCollections' = HomeLoadResult(storage)
       /\ MyResolved => collections' = MyLoadResult(storage)]_vars

\* C17: a load that completes while its screen is out of focus leaves the list that
\* screen holds as it was
C17_LateLoadDiscarded ==
    [][/\ (HomeResolved /\ focused # "index") => userCollections' = userCollections
       /\ (MyResolved /\ focused # "my") => collections' = collections
       /\ (FormResolved /\ focused # "contributor") =>
             submittedCollections' = submittedCollections]_vars

\* C18: with the key absent or holding an empty array and filter "All", the loaded
\* marketplace lists the ids "1", "2", "3", "4" in that order and nothing of the user's
C18_EmptyStoreShowsSeeds ==
    (HomeLoaded /\ selectedFilter = "All"
        /\ (storage.kind = "null" \/ storage = [kind |-> "array", items |-> <<>>]))
    => /\ [k \in DOMAIN filteredCollections |-> filteredCollections[k].id]
              = <<"1", "2", "3", "4">>
       /\ \A k \in DOMAIN filteredCollections : filteredCollections[k].creator # "You"

\* the marketplace has loaded an empty array and shows four items under "All"
C18_Witness ==
    /\ HomeLoaded /\ selectedFilter = "All"
    /\ storage = [kind |-> "array", items |-> <<>>]
    /\ Len(filteredCollections) = 4

\* the store holds exactly one record, and that record has no card images
OneCoverRecord(raw) ==
    /\ raw.kind = "array" /\ Len(raw.items) = 1
    /\ raw.items[1].images = Images(<<>>)

\* C19: from an empty store, an accepted submit with a cover and no card images writes
\* one record carrying the chosen rarity and cover; over that store My Collections
\* loads one entry of that rarity with card count 0, and the details route of that
\* record's id shows the cover as its only gallery image
C19_CoverOnlySubmit ==
    [][/\ (SubmitAccepted /\ submittedCollections = <<>> /\ extraImages = <<>>) =>
             /\ OneCoverRecord(writes'[Len(writes')].text)
             /\ writes'[Len(writes')].text.items[1].rarity = rarity
             /\ writes'[Len(writes')].text.items[1].imageUri = imageUri
       /\ \A i \in DOMAIN writes :
             (SubmitResolve(i) /\ storage \in EmptyBlobs) => storage' = writes[i].text
       /\ (MyResolved /\ OneCoverRecord(storage)) =>
             /\ Len(collections') = 1
             /\ collections'[1].rarity = storage.items[1].rarity
             /\ MyCardCount(collections'[1]) = 0
       /\ \A i \in DOMAIN loads["detail"] :
             (DetailResolve(i) /\ OneCoverRecord(storage)
                 /\ loads["detail"][i].id = storage.items[1].id) =>
                /\ collection'.type = "user"
                /\ GalleryImages(collection') = <<storage.items[1].imageUri>>]_vars

\* the store was empty, the form's one submit went through without card images, and
\* both My Collections and the details route have loaded the new record
C19_Witness ==
    /\ OneCoverRecord(storage) /\ writes = <<>>
    /\ storage.items[1].id = ToString(DateNow)
    /\ ~myIsLoading /\ Len(collections) = 1 /\ MyCardCount(collections[1]) = 0
    /\ collections[1].rarity = storage.items[1].rarity
    /\ focused = "detail" /\ routeId = ToString(DateNow) /\ ~isLoading
    /\ collection # NoCollection /\ collection.type = "user"
    /\ galleryImages = <<storage.items[1].imageUri>>

\* the records of `list` whose id is `id`
WithId(list, id) == SelectSeq(list, LAMBDA c : c.id = id)

\* C20: an accepted submit takes its id from the clock alone, whatever ids the form's
\* list already holds; a submit at a clock value an earlier record was made at puts a
\* second record of that id in the list and in the text it writes, and the resolved
\* write stores both
C20_SameClockSameId ==
    [][/\ SubmitAccepted =>
             /\ submittedCollections'[1].id = ToString(DateNow)
             /\ Len(WithId(submittedCollections', ToString(DateNow)))
                   = Len(WithId(submittedCollections, ToString(DateNow))) + 1
             /\ writes'[Len(writes')].text = JSONstringify(submittedCollections')
       /\ \A i \in DOMAIN writes :
             SubmitResolve(i) => storage' = writes[i].text]_vars

\* two submits read the same clock value and the store holds both records under one id
C20_Witness ==
    /\ storage.kind = "array" /\ Len(storage.items) = 2
    /\ storage.items[1].id = storage.items[2].id
    /\ storage.items[1].id = ToString(DateNow)
    /\ submittedCollections = storage.items

\* C21: without the photo permission, a cover pick and a card pick put up the
\* "Permission needed" alert and leave the cover and the card images as they were,
\* whatever the picker would have returned; a cancelled pick leaves both as they were
\* and puts up no alert
C21_NoPermissionNoPick ==
    [][/\ \A u \in CoverUris \cup CardUris \cup {""} :
             (HandlePickImage("denied", u) \/ PickExtraImage("denied", u)) =>
                /\ alert' = "Permission needed"
                /\ imageUri' = imageUri /\ extraImages' = extraImages
       /\ (HandlePickImage("granted", "") \/ PickExtraImage("granted", "")) =>
             /\ alert' = alert
             /\ imageUri' = imageUri /\ extraImages' = extraImages]_vars

\* a pick was refused for lack of permission on a form that already has a cover and a
\* card image, and both are still there
C21_Witness ==
    /\ alert = "Permission needed"
    /\ imageUri \in CoverUris
    /\ extraImages # <<>>

\* the status of each record of `list`, in order
Statuses(list) == [k \in DOMAIN list |-> list[k].status]

\* C22: an accepted submit makes a record of status "pending" and keeps the status of
\* the records behind it; a confirmed delete writes records of the list it was shown,
\* as they were; the loads of the form and of My Collections keep each record's status;
\* so every record the store comes to hold has the status "pending"
C22_StatusStaysPending ==
    [][/\ SubmitAccepted =>
             /\ submittedCollections'[1].status = "pending"
             /\ Statuses(SubSeq(submittedCollections', 2, Len(submittedCollections')))
                   = Statuses(submittedCollections)
             /\ writes'[Len(writes')].text = JSONstringify(submittedCollections')
       /\ DeleteConfirmed =>
             \A k \in DOMAIN writes'[Len(writes')].text.items :
                 writes'[Len(writes')].text.items[k] \in Range(pendingDelete.list)
       /\ (MyResolved /\ storage.kind = "array") =>
             Statuses(collections') = Statuses(storage.items)
       /\ (FormResolved /\ storage.kind = "array") =>
             Statuses(submittedCollections') = Statuses(storage.items)
       /\ storage'.kind = "array" =>
             \A k \in DOMAIN storage'.items : storage'.items[k].status = "pending"]_vars

\* the submitted record was listed by My Collections beside an older one, the older
\* one was deleted, and the delete's write put the submitted record back in the store
C22_Witness ==
    /\ writes = <<>> /\ storage.kind = "array" /\ Len(storage.items) = 1
    /\ storage.items[1].id = ToString(DateNow)
    /\ storage.items[1].status = "pending"
    /\ collections = storage.items
    /\ Len(submittedCollections) = 2

\* this step ends a pan on route r at a translation past (short of) the threshold
PanEndsFar(r) ==
    \E x \in PanTranslations : PanEnd(r, x) /\ Clamp(x) * 10 >= ScreenWidth * 3
PanEndsShort(r) ==
    \E x \in PanTranslations : PanEnd(r, x) /\ Clamp(x) * 10 < ScreenWidth * 3

\* C23: a pan that ends at 30% of the screen width or more sends the translation to the
\* full width and calls router.back() once when it gets there; a shorter one sends it
\* to 0 and calls nothing; the translation is never below 0, and it is 0 when the route
\* regains focus
C23_SwipeSnapsOrCompletes ==
    [][\A r \in Routes :
          /\ PanEndsFar(r) => animation'[r] = "timing" /\ backs' = backs
          /\ PanEndsShort(r) => animation'[r] = "spring" /\ backs' = backs
          /\ (AnimationEnd(r) /\ animation[r] = "timing") =>
                translateX'[r] = ScreenWidth /\ backs' = backs + 1
          /\ (AnimationEnd(r) /\ animation[r] = "spring") =>
                translateX'[r] = 0 /\ backs' = backs
          /\ backs' # backs => \E q \in Routes : AnimationEnd(q) /\ animation[q] = "timing"
          /\ translateX'[r] >= 0
          /\ (focused # r /\ focused' = r) => translateX'[r] = 0]_vars

\* the same without the frames of the spring: what the handlers assign is never below
\* 0, a finished animation is at its target, and only a finished withTiming navigates
C23_HandlersClamp ==
    [][\A r \in Routes :
          /\ PanEndsFar(r) => animation'[r] = "timing" /\ backs' = backs
          /\ PanEndsShort(r) => animation'[r] = "spring" /\ backs' = backs
          /\ (AnimationEnd(r) /\ animation[r] = "timing") =>
                translateX'[r] = ScreenWidth /\ backs' = backs + 1
          /\ (AnimationEnd(r) /\ animation[r] = "spring") =>
                translateX'[r] = 0 /\ backs' = backs
          /\ backs' # backs => \E q \in Routes : AnimationEnd(q) /\ animation[q] = "timing"
          /\ (\E x \in PanTranslations : PanUpdate(r, x)) => translateX'[r] >= 0
          /\ (focused # r /\ focused' = r) => translateX'[r] = 0]_vars

\* C24: once the store no longer holds the record "8" that My Collections deleted, no
\* submit accepted from then on writes a sequence that holds it
C24_NoResurrection ==
    [][(SubmitAccepted /\ storage.kind = "array" /\ ~HasId(storage.items, RecOld.id)) =>
          ~HasId(writes'[Len(writes')].text.items, RecOld.id)]_vars

\* a form whose load has completed since the delete was stored builds its text from
\* what that load read, and a resolved submit stores exactly its text
C24_ReloadedFormForgets ==
    [][/\ (FormResolved /\ storage.kind = "array") =>
             submittedCollections' = storage.items
       /\ SubmitAccepted => writes'[Len(writes')].text = JSONstringify(updated)
       /\ \A i \in DOMAIN writes : SubmitResolve(i) => storage' = writes[i].text]_vars

\* C25: with no load of the details route in flight, what it presents is "not found"
\* or a record whose id is the route's id; the same on the edit route
C25_PresentsRouteId ==
    /\ (routeId # Unmounted /\ loads["detail"] = <<>>) =>
          (collection = NoCollection \/ collection.id = routeId)
    /\ (editRouteId # Unmounted /\ loads["edit"] = <<>>) =>
          (editCollection = NoCollection \/ editCollection.id = editRouteId)

\* each load presents "not found" or a record of the id it was started for
C25_LoadPresentsItsId ==
    [][\A i \in DOMAIN loads["detail"] :
          DetailResolve(i) =>
             (collection' = NoCollection \/ collection'.id = loads["detail"][i].id)]_vars

\* this step is one of the operations that read or only change a screen: a completed
\* load, a filter tap, opening a collection or its viewer, a pick or removal of a form
\* image, a submit that validation rejects, a cancelled delete
ReadOnlyStep ==
    \/ HomeResolved \/ MyResolved \/ FormResolved
    \/ \E i \in DOMAIN loads["detail"] : DetailResolve(i)
    \/ \E f \in Range(rarityFilters) : SetSelectedFilter(f)
    \/ \E id \in RouteIds : OpenDetail(id)
    \/ \E k \in 0..MaxCards : OpenViewerAt(k)
    \/ CloseViewer
    \/ \E st \in PermissionStatuses, u \in CoverUris \cup {""} : HandlePickImage(st, u)
    \/ \E st \in PermissionStatuses, u \in CardUris \cup {""} : PickExtraImage(st, u)
    \/ \E k \in 0..MaxCards : RemoveCardImage(k)
    \/ (HandleSubmit /\ MissingInfo)
    \/ CancelDelete

\* C26: the text under the key changes only when the setItem of an accepted submit or
\* of a confirmed delete resolves, and only those two start a setItem; the read-only
\* operations leave the store and the writes in flight as they were
C26_OnlySubmitAndDeleteWrite ==
    [][/\ storage' # storage =>
             \E i \in DOMAIN writes : SubmitResolve(i) \/ DeleteResolve(i)
       /\ Len(writes') > Len(writes) =>
             \/ SubmitAccepted /\ ~MissingInfo
             \/ DeleteConfirmed /\ ConfirmDelete
       /\ ReadOnlyStep => (storage' = storage /\ writes' = writes)]_vars

\* a submit of a form without a cover was rejected, My Collections has loaded and no
\* delete went through, and the store is as it was at the start
C26_Witness ==
    /\ alert = "Missing info" /\ rarity # "" /\ imageUri = ""
    /\ ~myIsLoading /\ Len(collections) = 1 /\ pendingDelete = NoDelete
    /\ storage = JSONstringify(<<RecOld>>) /\ writes = <<>>

\* C27: a load of My Collections in flight leads to its isLoading being false, a load
\* of the details route in flight leads to its isLoading being false, and an accepted
\* submit leads to isSubmitting being false, whether the call resolves or rejects
C27_BusyFlagsClear ==
    /\ (loads["my"] # <<>>) ~> (~myIsLoading)
    /\ (loads["detail"] # <<>>) ~> (~isLoading)
    /\ isSubmitting ~> (~isSubmitting)

\* a submit's write was rejected: the alert is up and the flag is down
C27_Witness ==
    /\ alert = "Error" /\ ~isSubmitting /\ writes = <<>>
    /\ imageUri # "" /\ storage \in WriterBlobs

\* C28: a presented collection has at least one gallery image, and while the viewer is
\* on display its index is a position of the gallery, counted from 0
C28_ViewerIndexInGallery ==
    /\ collection # NoCollection => Len(galleryImages) >= 1
    /\ ViewerVisible => (0 <= viewerIndex /\ viewerIndex < Len(galleryImages))

\* the gallery is never empty, and a thumbnail press and a page scroll each leave the
\* index at a position of the gallery then on display
C28_PressAndScrollInRange ==
    [][/\ collection' # NoCollection => Len(GalleryImages(collection')) >= 1
       /\ ((\E k \in 0..MaxCards : OpenViewerAt(k))
             \/ (\E x \in 0..(MaxCards * ScreenWidth + 1) : HandleScrollEnd(x))) =>
             (0 <= viewerIndex' /\ viewerIndex' < Len(galleryImages))]_vars

\* what the details route presents for item k of the marketplace's merged list, over
\* the store as it is
DetailOf(k) == DetailLoadResult(storage, allCollections[k].id)

\* item k of the merged list came from the store (the user's items come first)
FromStore(k) == k <= Len(userCollections)

\* the ids the store holds are pairwise different and none is a seed's id
DistinctIds ==
    LET list == StoredUserSequence(storage) IN
    /\ \A j, k \in DOMAIN list : list[j].id = list[k].id => j = k
    /\ \A k \in DOMAIN list : ~HasId(detailSeedCollections, list[k].id)

\* C29: every item of the loaded marketplace list is found by the details route, with
\* the same title and rarity, user-tagged if it came from the store and seed-tagged if
\* it is one of the four seeds
C29_ListAndDetailAgree ==
    HomeLoaded =>
       \A k \in DOMAIN allCollections :
          /\ DetailOf(k) # NoCollection
          /\ DetailOf(k).title = allCollections[k].title
          /\ DetailOf(k).rarity = allCollections[k].rarity
          /\ DetailOf(k).type = (IF FromStore(k) THEN "user" ELSE "seed")

\* the same over a store that is absent, empty or an array of records with ids of
\* their own
C29_AgreeOnDistinctIds ==
    (HomeLoaded /\ storage.kind \in {"null", "empty", "array"} /\ DistinctIds) =>
       \A k \in DOMAIN allCollections :
          /\ DetailOf(k) # NoCollection
          /\ DetailOf(k).title = allCollections[k].title
          /\ DetailOf(k).rarity = allCollections[k].rarity
          /\ DetailOf(k).type = (IF FromStore(k) THEN "user" ELSE "seed")

\* the form's inputs
inputs == <<title, description, rarity, imageUri, extraImages>>

\* C30: handleSubmit itself, rejected or accepted, and a failed write leave every input
\* as it was; the inputs are cleared in the step in which the write is stored; and the
\* record an accepted submit writes carries the trimmed title and description, the
\* chosen rarity and cover, and the card images in the order they were added
C30_InputsClearedOnSuccess ==
    [][/\ (HandleSubmit \/ \E i \in DOMAIN writes : SubmitReject(i)) => inputs' = inputs
       /\ \A i \in DOMAIN writes :
             SubmitResolve(i) =>
                /\ storage' = writes[i].text
                /\ inputs' = <<<<>>, <<>>, "", "", <<>>>>
       /\ SubmitAccepted =>
             LET written == writes'[Len(writes')].text.items[1] IN
             /\ written.title = Str(Trim(title))
             /\ written.description = Str(Trim(description))
             /\ written.rarity = rarity /\ written.imageUri = imageUri
             /\ written.images = Images(extraImages)]_vars

\* a form with two different card images was submitted and its write failed, so the
\* form is still filled; submitted again, the write went through, the store holds the
\* two card images in the order they were added, and the form is empty
C30_Witness ==
    /\ alert = "Submitted" /\ ~isSubmitting /\ writes = <<>>
    /\ inputs = <<<<>>, <<>>, "", "", <<>>>>
    /\ storage.kind = "array" /\ Len(storage.items) = 2
    /\ storage.items[1].images = Images(<<"card2", "card1">>)
    /\ storage.items[1].title = "T"

====
